---- MODULE Spec2Model ----
(***************************************************************************)
(* Model of doclingo's request handler (src/app.py): one upload is saved   *)
(* into a temporary directory, its text is read, and depending on the      *)
(* form's mode the handler asks the remote model for entities (JSON),      *)
(* translates every page and rebuilds the PDF, or does both and zips.      *)
(* Strings are sequences of one-character strings.                         *)
(***************************************************************************)
EXTENDS Integers, Sequences, FiniteSets, TLC

VARIABLES pc, request, tmpdir, tmpdirs_created, tmpfiles, produced, saved, text,
          calls, gemini_output, pages_data, translated_texts,
          translated_pages, rebuilt, rebuilds, archive, response

vars == <<pc, request, tmpdir, tmpdirs_created, tmpfiles, produced, saved, text,
          calls, gemini_output, pages_data, translated_texts,
          translated_pages, rebuilt, rebuilds, archive, response>>

\* ---------------------------------------------------------------- bounds
MaxPages == 2
MaxBlocks == 2

\* ---------------------------------------------------------------- inputs
None == "None"

\* the codes of languages.json (the file is configuration, not code)
LANGUAGES == {"en", "fr"}

\* form values of "target_language": missing (the default "en" is used), not in LANGUAGES
FormLanguages == {None, "xx"}

\* form values of "mode": the three handled, a missing one, an unknown one
FormModes == {"json", "pdf", "both", None, "structured"}

Whitespace == {" ", "\n", "\t"}

\* blocks as page.get_text("blocks") returns them: (x0, y0, x1, y1, text, ...).
\* The i-th block of a page lies in a box of its own; its text is a letter of
\* its own (with a trailing newline at odd i) or whitespace only.
Box(i) == <<i, 2 * i, i + 5, 2 * i + 2>>

Letters == <<"a", "b", "c", "d", "e">>

LibBlock(i, visible) ==
  [bbox |-> Box(i),
   text |-> IF ~visible THEN <<" ", "\n">>
            ELSE IF i % 2 = 1 THEN <<Letters[i], "\n">> ELSE <<Letters[i]>>]

SeqsUpTo(S, n) == UNION { [1..k -> S] : k \in 0..n }

LibPages ==
  { [i \in 1..Len(v) |-> LibBlock(i, v[i])] : v \in SeqsUpTo(BOOLEAN, MaxBlocks) }

\* an upload: bytes fitz can open (with its pages) or bytes it cannot
Uploads ==
  { [valid |-> TRUE, pages |-> ps] : ps \in (SeqsUpTo(LibPages, MaxPages) \ {<<>>}) }
  \cup { [valid |-> FALSE, pages |-> <<>>] }

\* secure_filename(file.filename): a name of its own, or the name the handler
\* gives to the JSON it writes into the same directory
Filenames == {"doc.pdf", "output.json"}

\* what the remote model may answer to the entity prompt
JsonAnswers == { <<"{", "}">>, <<"j", "{", "}">>, <<"n", "o">> }

\* what the remote model may answer to a translation prompt
TranslateAnswers ==
  { <<>>, <<"x">>, <<"x", "\n", "y", "\n", "z", "\n", "w">> }

\* ------------------------------------------------------- string helpers
RECURSIVE lstrip(_)
lstrip(s) == IF s = <<>> \/ Head(s) \notin Whitespace THEN s ELSE lstrip(Tail(s))

RECURSIVE rstrip(_)
rstrip(s) ==
  IF s = <<>> \/ s[Len(s)] \notin Whitespace THEN s
  ELSE rstrip(SubSeq(s, 1, Len(s) - 1))

strip(s) == rstrip(lstrip(s))

RECURSIVE split(_, _)
split(s, sep) ==
  IF \A i \in 1..Len(s) : s[i] # sep THEN << s >>
  ELSE LET i == CHOOSE j \in 1..Len(s) :
                  s[j] = sep /\ \A k \in 1..(j - 1) : s[k] # sep
       IN  << SubSeq(s, 1, i - 1) >> \o split(SubSeq(s, i + 1, Len(s)), sep)

RECURSIVE join(_, _)
join(sep, parts) ==
  IF parts = <<>> THEN <<>>
  ELSE IF Len(parts) = 1 THEN parts[1]
  ELSE parts[1] \o << sep >> \o join(sep, Tail(parts))

RECURSIVE concat(_)
concat(parts) == IF parts = <<>> THEN <<>> ELSE Head(parts) \o concat(Tail(parts))

\* json.loads succeeds exactly on JSON text
json_loads_ok(s) == s = <<"{", "}">>

\* ---------------------------------------------------------------- prompts
prompt_json(t, target_language) ==
  [template |-> "json", text |-> t, target_language |-> target_language]

prompt_translate(t, target_language) ==
  [template |-> "translate", text |-> t, target_language |-> target_language]

\* request.form.get("target_language", "en")
target_language == IF request.target_language = None THEN "en" ELSE request.target_language

user_choice == request.mode

\* page.get_text() of one page: the text of its blocks, in order
page_get_text(page) == concat([i \in 1..Len(page) |-> page[i].text])

\* the loop of lines 135-138 over the pages of the document
full_text(doc) == concat([p \in 1..Len(doc.pages) |-> page_get_text(doc.pages[p])])

\* ------------------------------------------------------------ PDF helpers
keep_block_nostrip(b) == b.text # <<>>

keep_block(b) == strip(b.text) # <<>>

page_items_of(blocks) ==
  LET kept == SelectSeq(blocks, keep_block)
  IN  [i \in 1..Len(kept) |-> [bbox |-> kept[i].bbox, text |-> kept[i].text]]

extract_text_with_positions(doc) ==
  [p \in 1..Len(doc.pages) |-> page_items_of(doc.pages[p])]

\* lines 156-160: pair line i with block i, else keep the block's text
translated_items_blank(page_items, split_translations) ==
  [i \in 1..Len(page_items) |->
     [bbox |-> page_items[i].bbox,
      text |-> IF i <= Len(split_translations) THEN split_translations[i] ELSE <<>>]]

translated_items(page_items, split_translations) ==
  [i \in 1..Len(page_items) |->
     [bbox |-> page_items[i].bbox,
      text |-> IF i <= Len(split_translations)
               THEN split_translations[i] ELSE page_items[i].text]]

redact_op(item) == [op |-> "add_redact_annot", bbox |-> item.bbox]

insert_op(item) ==
  [op |-> "insert_text", point |-> <<item.bbox[1], item.bbox[2]>>,
   text |-> item.text, fontname |-> "helv", fontsize |-> 10]

\* a rebuilder that blanks and writes block by block
rebuild_page_interleaved(page_items) ==
  concat([i \in 1..Len(page_items) |->
            << redact_op(page_items[i]), [op |-> "apply_redactions"],
               insert_op(page_items[i]) >>])

\* lines 103-117: the library calls made on one page, in order
rebuild_page(page_items) ==
  [i \in 1..Len(page_items) |-> redact_op(page_items[i])]
  \o << [op |-> "apply_redactions"] >>
  \o [i \in 1..Len(page_items) |-> insert_op(page_items[i])]

\* translated_texts[page_num] of line 103 raises IndexError when out of range
rebuild_index_error(doc, translated) == Len(translated) < Len(doc.pages)

rebuild_pdf_with_translation(doc, translated) ==
  [p \in 1..Len(doc.pages) |-> rebuild_page(translated[p])]

\* json_path of lines 143 and 170 is the path the upload was saved to
input_overwritten == request.filename = "output.json" /\ "output.json" \in produced

\* ------------------------------------------------------------------ state
NoResponse == [kind |-> "none", file |-> None, error |-> None]

Init ==
  /\ pc = "idle"
  /\ request = [method |-> None, mode |-> None, target_language |-> None,
                has_file |-> FALSE, filename |-> None,
                file |-> [valid |-> FALSE, pages |-> <<>>]]
  /\ tmpdir = "none"
  /\ tmpdirs_created = 0
  /\ tmpfiles = {}
  /\ produced = {}
  /\ saved = FALSE
  /\ text = <<>>
  /\ calls = <<>>
  /\ gemini_output = <<>>
  /\ pages_data = <<>>
  /\ translated_texts = <<>>
  /\ translated_pages = <<>>
  /\ rebuilt = <<>>
  /\ rebuilds = 0
  /\ archive = {}
  /\ response = NoResponse

\* an exception that leaves the with-block without removing the directory
RaiseLeak(e) ==
  /\ pc' = "done"
  /\ response' = [kind |-> "error", file |-> None, error |-> e]
  /\ tmpdir' = tmpdir
  /\ tmpfiles' = tmpfiles

\* an exception inside the with-block of line 131: the directory is removed
\* on the way out and the request ends with the error
Raise(e) ==
  /\ pc' = "done"
  /\ response' = [kind |-> "error", file |-> None, error |-> e]
  /\ tmpdir' = "released"
  /\ tmpfiles' = {}

\* an exception of lines 126-131, before the with-block is entered: the
\* request ends with the error and no directory exists
RaiseOutside(e) ==
  /\ pc' = "done"
  /\ response' = [kind |-> "error", file |-> None, error |-> e]
  /\ UNCHANGED <<tmpdir, tmpdirs_created, tmpfiles>>

\* return send_file(path) inside the with-block
SendFile(name) ==
  /\ pc' = "done"
  /\ response' = [kind |-> "file", file |-> name, error |-> None]
  /\ tmpdir' = "released"
  /\ tmpfiles' = {}

\* line 125 false: the form page is rendered, nothing else happens
Get ==
  /\ pc = "idle"
  /\ request' = [request EXCEPT !.method = "GET"]
  /\ pc' = "done"
  /\ response' = [kind |-> "page", file |-> None, error |-> None]
  /\ UNCHANGED <<tmpdir, tmpdirs_created, tmpfiles, produced, saved, text, calls,
                 gemini_output, pages_data, translated_texts,
                 translated_pages, rebuilt, rebuilds, archive>>

\* lines 125-131: read the form, enter the temporary directory.
\* request.files["file"] raises when the form has no file part, and
\* tempfile.TemporaryDirectory() can fail; both happen before the with-block.
Post ==
  /\ pc = "idle"
  /\ \E m \in FormModes, l \in FormLanguages :
       \/ /\ request' = [method |-> "POST", mode |-> m, target_language |-> l,
                         has_file |-> FALSE, filename |-> None,
                         file |-> [valid |-> FALSE, pages |-> <<>>]]
          /\ RaiseOutside("request.files")
       \/ \E f \in Uploads, n \in Filenames :
            /\ request' = [method |-> "POST", mode |-> m, target_language |-> l,
                           has_file |-> TRUE, filename |-> n, file |-> f]
            /\ \/ /\ tmpdir' = "active"
                  /\ tmpdirs_created' = tmpdirs_created + 1
                  /\ pc' = "save"
                  /\ UNCHANGED <<tmpfiles, response>>
               \/ RaiseOutside("tempfile.TemporaryDirectory")
  /\ UNCHANGED <<produced, saved, text, calls, gemini_output, pages_data,
                 translated_texts, translated_pages, rebuilt, rebuilds, archive>>

\* line 133: file.save(input_pdf_path)
SaveUpload ==
  /\ pc = "save"
  /\ \/ /\ tmpfiles' = tmpfiles \cup {request.filename}
        /\ saved' = TRUE
        /\ pc' = "open"
        /\ UNCHANGED <<tmpdir, response>>
     \/ /\ Raise("file.save")
        /\ UNCHANGED saved
  /\ UNCHANGED <<request, tmpdirs_created, produced, text, calls, gemini_output,
                 pages_data, translated_texts, translated_pages, rebuilt, rebuilds, archive>>

\* an open that treats unreadable bytes as an empty document
ReadTextLenient ==
  /\ pc = "open"
  /\ text' = full_text(request.file)
  /\ pc' = "dispatch"
  /\ UNCHANGED <<tmpdir, tmpfiles, response>>
  /\ UNCHANGED <<request, saved, tmpdirs_created, produced, calls, gemini_output,
                 pages_data, translated_texts, translated_pages, rebuilt, rebuilds, archive>>

\* lines 135-138: fitz.open and the concatenation of every page's text
ReadText ==
  /\ pc = "open"
  /\ IF request.file.valid
     THEN /\ text' = full_text(request.file)
          /\ pc' = "dispatch"
          /\ UNCHANGED <<tmpdir, tmpfiles, response>>
     ELSE /\ Raise("fitz.open")
          /\ UNCHANGED text
  /\ UNCHANGED <<request, saved, tmpdirs_created, produced, calls, gemini_output,
                 pages_data, translated_texts, translated_pages, rebuilt, rebuilds, archive>>

\* no branch of lines 140-167 matches: leave the with-block, render the page
NoBranch ==
  /\ pc = "dispatch"
  /\ user_choice \notin {"json", "pdf", "both"}
  /\ pc' = "done"
  /\ response' = [kind |-> "page", file |-> None, error |-> None]
  /\ tmpdir' = "released"
  /\ tmpfiles' = {}
  /\ UNCHANGED <<request, saved, tmpdirs_created, produced, text, calls, gemini_output,
                 pages_data, translated_texts, translated_pages, rebuilt, rebuilds, archive>>

\* call_gemini as used for the entity prompt, with a retry after a failure
CallGeminiJsonRetry ==
  /\ pc = "dispatch"
  /\ user_choice \in {"json", "both"}
  /\ calls' = Append(calls, [prompt |-> prompt_json(text, target_language), page |-> 0])
  /\ \/ /\ \E r \in JsonAnswers : gemini_output' = r
        /\ pc' = "json_loads"
        /\ UNCHANGED <<tmpdir, tmpfiles, response>>
     \/ /\ Len(calls) < 1
        /\ UNCHANGED <<pc, gemini_output, tmpdir, tmpfiles, response>>
  /\ UNCHANGED <<request, saved, tmpdirs_created, produced, text, pages_data,
                 translated_texts, translated_pages, rebuilt, rebuilds, archive>>

\* lines 141 and 168: call_gemini(prompt_json(text, target_language))
CallGeminiJson ==
  /\ pc = "dispatch"
  /\ user_choice \in {"json", "both"}
  /\ calls' = Append(calls, [prompt |-> prompt_json(text, target_language), page |-> 0])
  /\ \/ /\ \E r \in JsonAnswers : gemini_output' = r
        /\ pc' = "json_loads"
        /\ UNCHANGED <<tmpdir, tmpfiles, response>>
     \/ /\ Raise("call_gemini")
        /\ UNCHANGED gemini_output
  /\ UNCHANGED <<request, saved, tmpdirs_created, produced, text, pages_data,
                 translated_texts, translated_pages, rebuilt, rebuilds, archive>>

\* a handler that swallows the parse error and goes on with what it has
LoadJsonLenient ==
  /\ pc = "json_loads"
  /\ IF json_loads_ok(gemini_output)
     THEN /\ tmpfiles' = tmpfiles \cup {"output.json"}
          /\ produced' = produced \cup {"output.json"}
          /\ pc' = IF user_choice = "json" THEN "send_json" ELSE "extract"
          /\ UNCHANGED <<tmpdir, response>>
     ELSE /\ pc' = IF user_choice = "json" THEN "send_json" ELSE "extract"
          /\ tmpfiles' = tmpfiles \cup {"output.json"}
          /\ produced' = produced \cup {"output.json"}
          /\ UNCHANGED <<tmpdir, response>>
  /\ UNCHANGED <<request, saved, tmpdirs_created, text, calls, gemini_output, pages_data,
                 translated_texts, translated_pages, rebuilt, rebuilds, archive>>

\* lines 142-145 and 169-172: json.loads, then output.json is written
LoadJson ==
  /\ pc = "json_loads"
  /\ IF json_loads_ok(gemini_output)
     THEN \/ /\ tmpfiles' = tmpfiles \cup {"output.json"}
             /\ produced' = produced \cup {"output.json"}
             /\ pc' = IF user_choice = "json" THEN "send_json" ELSE "extract"
             /\ UNCHANGED <<tmpdir, response>>
          \/ /\ Raise("open")
             /\ UNCHANGED produced
     ELSE /\ Raise("json.loads")
          /\ UNCHANGED produced
  /\ UNCHANGED <<request, saved, tmpdirs_created, text, calls, gemini_output, pages_data,
                 translated_texts, translated_pages, rebuilt, rebuilds, archive>>

\* lines 149 and 174: pages_data = extract_text_with_positions(input_pdf_path)
\* The file is opened again (line 88); the open can fail, and it does when
\* output.json was written over an upload of that name (lines 170-172).
ExtractPositions ==
  /\ \/ pc = "dispatch" /\ user_choice = "pdf"
     \/ pc = "extract"
  /\ \/ /\ ~input_overwritten
        /\ pages_data' = extract_text_with_positions(request.file)
        /\ pc' = "translate"
        /\ UNCHANGED <<tmpdir, tmpfiles, response>>
     \/ /\ Raise("fitz.open")
        /\ UNCHANGED pages_data
  /\ UNCHANGED <<request, tmpdirs_created, produced, saved, text, calls,
                 gemini_output, translated_texts, translated_pages, rebuilt,
                 rebuilds, archive>>

\* a loop body that skips pages without blocks
TranslatePageSkipEmpty ==
  /\ pc = "translate"
  /\ Len(translated_texts) < Len(pages_data)
  /\ LET k == Len(translated_texts) + 1
         page_items == pages_data[k]
         page_text == join("\n", [i \in 1..Len(page_items) |-> page_items[i].text])
     IN  /\ calls' = Append(calls, [prompt |-> prompt_translate(page_text, target_language),
                                    page |-> k])
         /\ \/ \E translated_text \in TranslateAnswers :
                 /\ translated_texts' = Append(translated_texts, translated_text)
                 /\ translated_pages' =
                      IF page_items = <<>> THEN translated_pages
                      ELSE Append(translated_pages,
                                  translated_items(page_items, split(translated_text, "\n")))
                 /\ UNCHANGED <<pc, tmpdir, tmpfiles, response>>
            \/ /\ Raise("call_gemini")
               /\ UNCHANGED <<translated_texts, translated_pages>>
  /\ UNCHANGED <<request, saved, tmpdirs_created, produced, text, gemini_output, pages_data,
                 rebuilt, rebuilds, archive>>

\* lines 151-161 and 176-186: one iteration of the loop over pages_data
TranslatePage ==
  /\ pc = "translate"
  /\ Len(translated_texts) < Len(pages_data)
  /\ LET k == Len(translated_texts) + 1
         page_items == pages_data[k]
         page_text == join("\n", [i \in 1..Len(page_items) |-> page_items[i].text])
     IN  /\ calls' = Append(calls, [prompt |-> prompt_translate(page_text, target_language),
                                    page |-> k])
         /\ \/ \E translated_text \in TranslateAnswers :
                 /\ translated_texts' = Append(translated_texts, translated_text)
                 /\ translated_pages' =
                      Append(translated_pages,
                             translated_items(page_items, split(translated_text, "\n")))
                 /\ UNCHANGED <<pc, tmpdir, tmpfiles, response>>
            \/ /\ Raise("call_gemini")
               /\ UNCHANGED <<translated_texts, translated_pages>>
  /\ UNCHANGED <<request, saved, tmpdirs_created, produced, text, gemini_output, pages_data,
                 rebuilt, rebuilds, archive>>

\* lines 163-164 and 188-189: rebuild_pdf_with_translation and its doc.save
Rebuild ==
  /\ pc = "translate"
  /\ Len(translated_texts) = Len(pages_data)
  /\ rebuilds' = rebuilds + 1
  /\ \/ /\ Raise("fitz.open")
        /\ UNCHANGED <<rebuilt, produced>>
     \/ IF rebuild_index_error(request.file, translated_pages)
        THEN /\ Raise("IndexError")
             /\ UNCHANGED <<rebuilt, produced>>
        ELSE /\ rebuilt' = rebuild_pdf_with_translation(request.file, translated_pages)
             /\ \/ /\ tmpfiles' = tmpfiles \cup {"translated.pdf"}
                   /\ produced' = produced \cup {"translated.pdf"}
                   /\ pc' = IF user_choice = "pdf" THEN "send_pdf" ELSE "zip"
                   /\ UNCHANGED <<tmpdir, response>>
                \/ /\ Raise("doc.save")
                   /\ UNCHANGED produced
  /\ UNCHANGED <<request, saved, tmpdirs_created, text, calls, gemini_output, pages_data,
                 translated_texts, translated_pages, archive>>

\* lines 191-195: result.zip with output.json and translated.pdf
Zip ==
  /\ pc = "zip"
  /\ \/ /\ {"output.json", "translated.pdf"} \subseteq tmpfiles
        /\ archive' = {"output.json", "translated.pdf"}
        /\ tmpfiles' = tmpfiles \cup {"result.zip"}
        /\ produced' = produced \cup {"result.zip"}
        /\ pc' = "send_zip"
        /\ UNCHANGED <<tmpdir, response>>
     \/ /\ Raise("zipfile")
        /\ UNCHANGED <<archive, produced>>
  /\ UNCHANGED <<request, saved, tmpdirs_created, text, calls, gemini_output, pages_data,
                 translated_texts, translated_pages, rebuilt, rebuilds>>

\* lines 146, 165 and 196: return send_file(...), leaving the with-block
Send ==
  /\ pc \in {"send_json", "send_pdf", "send_zip"}
  /\ SendFile(CASE pc = "send_json" -> "output.json"
                [] pc = "send_pdf" -> "translated.pdf"
                [] pc = "send_zip" -> "result.zip")
  /\ UNCHANGED <<request, saved, tmpdirs_created, produced, text, calls, gemini_output,
                 pages_data, translated_texts, translated_pages, rebuilt, rebuilds,
                 archive>>

Next ==
  \/ Get
  \/ Post
  \/ SaveUpload
  \/ ReadText
  \/ NoBranch
  \/ CallGeminiJson
  \/ LoadJson
  \/ ExtractPositions
  \/ TranslatePage
  \/ Rebuild
  \/ Zip
  \/ Send

Spec == Init /\ [][Next]_vars

\* ------------------------------------------------------------- properties
Outputs == {"output.json", "translated.pdf", "result.zip"}

Finished == pc = "done"

Lines(k) == split(translated_texts[k], "\n")

HasVisibleChar(b) == \E i \in 1..Len(b.text) : b.text[i] \notin Whitespace

IsJsonCall(c) == c.prompt.template = "json"

IsTranslateCall(c) == c.prompt.template = "translate"

NumPages == Len(request.file.pages)

\* C1: every aligned page has one entry per block, in order, with the block's
\* box; entry i holds translated line i when there is one and the block's own
\* text otherwise; surplus lines are dropped.  The lines are the pieces of the
\* answer between newlines.
C1_LineAligner ==
  \A k \in 1..Len(translated_pages) :
    LET B == pages_data[k]
        L == Lines(k)
        A == translated_pages[k]
    IN  /\ join("\n", L) = translated_texts[k]
        /\ \A n \in 1..Len(L) : \A j \in 1..Len(L[n]) : L[n][j] # "\n"
        /\ Len(A) = Len(B)
        /\ \A i \in 1..Len(B) :
             /\ A[i].bbox = B[i].bbox
             /\ i <= Len(L) => A[i].text = L[i]
             /\ i > Len(L) => A[i].text = B[i].text

C1_Witness ==
  /\ \E k \in 1..Len(translated_pages) : Len(Lines(k)) < Len(pages_data[k])
  /\ \E k \in 1..Len(translated_pages) :
       Len(pages_data[k]) >= 1 /\ Len(Lines(k)) > Len(pages_data[k])

\* C2: in mode both a file is returned only as result.zip holding both files,
\* after the entity answer parsed, output.json and translated.pdf were written;
\* when the entity branch fails no PDF is rebuilt or written and nothing is
\* archived; when the translation or rebuild fails nothing is delivered.
C2_BothAtomic ==
  (request.method = "POST" /\ user_choice = "both") =>
    /\ response.kind = "file" =>
         /\ response.file = "result.zip"
         /\ archive = {"output.json", "translated.pdf"}
         /\ json_loads_ok(gemini_output)
         /\ {"output.json", "translated.pdf"} \subseteq produced
         /\ Len(translated_pages) = NumPages
    /\ (response.kind = "error" /\ "output.json" \notin produced) =>
         /\ "translated.pdf" \notin produced
         /\ rebuilds = 0
         /\ archive = {}
         /\ response.file = None
    /\ (response.kind = "error" /\ "output.json" \in produced) =>
         /\ response.file = None
         /\ archive = {}
    /\ (\E i \in 1..Len(calls) : IsTranslateCall(calls[i])) =>
         json_loads_ok(gemini_output)

C2_Witness ==
  /\ request.method = "POST" /\ user_choice = "both"
  /\ response.kind = "error"
  /\ "output.json" \in produced
  /\ "translated.pdf" \notin produced

\* C3: on every rebuilt page the redaction annotations of all blocks come
\* first, then one apply_redactions, then one insertion per block at the
\* (left, top) corner of its box, so no redaction follows an insertion.
C3_RedactBeforeInsert ==
  \A p \in 1..Len(rebuilt) :
    LET ops == rebuilt[p]
        items == translated_pages[p]
        n == Len(items)
    IN  /\ Len(ops) = 2 * n + 1
        /\ \A i, j \in 1..Len(ops) :
             (ops[i].op = "insert_text" /\ ops[j].op # "insert_text") => j < i
        /\ Cardinality({i \in 1..Len(ops) : ops[i].op = "apply_redactions"}) = 1
        /\ \A i \in 1..n :
             /\ ops[i].op = "add_redact_annot"
             /\ ops[i].bbox = items[i].bbox
             /\ ops[n + 1 + i].op = "insert_text"
             /\ ops[n + 1 + i].point = <<items[i].bbox[1], items[i].bbox[2]>>
             /\ ops[n + 1 + i].text = items[i].text

C3_Witness ==
  \E p \in 1..Len(rebuilt) : Len(translated_pages[p]) >= 2

\* C4: after extraction there is one list per page of the document, in page
\* order; the list of a page is the library's blocks that contain a
\* non-whitespace character, in the library's order, box and text unchanged.
C4_Extractor ==
  pc \in {"translate", "zip", "send_pdf", "send_zip"} =>
    /\ Len(pages_data) = NumPages
    /\ \A p \in 1..NumPages :
         pages_data[p] = SelectSeq(request.file.pages[p], HasVisibleChar)

C4_Witness ==
  /\ pc = "translate"
  /\ \E p \in 1..Len(pages_data) : pages_data[p] = <<>>
  /\ \E p \in 1..Len(pages_data) :
       /\ pages_data[p] # <<>>
       /\ Len(pages_data[p]) < Len(request.file.pages[p])

\* C5: a request that returns a file has made exactly the remote calls of its
\* mode (json: one entity call; pdf: one translation per page in page order;
\* both: the entity call, then one translation per page) and at most one
\* rebuild, and no call is ever made twice for the same prompt and page.
C5_Dispatch ==
  /\ rebuilds <= 1
  /\ \A i, j \in 1..Len(calls) :
       i < j => <<calls[i].prompt.template, calls[i].page>>
                  # <<calls[j].prompt.template, calls[j].page>>
  /\ (response.kind = "file" /\ user_choice = "json") =>
       /\ Len(calls) = 1
       /\ IsJsonCall(calls[1])
       /\ rebuilds = 0
       /\ response.file = "output.json"
  /\ (response.kind = "file" /\ user_choice = "pdf") =>
       /\ Len(calls) = NumPages
       /\ \A k \in 1..NumPages : IsTranslateCall(calls[k]) /\ calls[k].page = k
       /\ rebuilds = 1
       /\ response.file = "translated.pdf"
  /\ (response.kind = "file" /\ user_choice = "both") =>
       /\ Len(calls) = 1 + NumPages
       /\ IsJsonCall(calls[1])
       /\ \A k \in 1..NumPages : IsTranslateCall(calls[1 + k]) /\ calls[1 + k].page = k
       /\ rebuilds = 1
       /\ response.file = "result.zip"
  /\ response.kind = "file" => user_choice \in {"json", "pdf", "both"}

C5_Witness ==
  /\ response.kind = "file"
  /\ user_choice = "both"
  /\ NumPages >= 2

\* C6: a request creates at most one temporary directory, a request that
\* saved its upload created exactly one, and every finished request that
\* created one has released it, whatever way it ended.
C6_TmpReleased ==
  /\ tmpdirs_created <= 1
  /\ saved => tmpdirs_created = 1
  /\ (tmpdir = "none") <=> (tmpdirs_created = 0)
  /\ (Finished /\ tmpdirs_created = 1) => (tmpdir = "released" /\ tmpfiles = {})
  /\ Finished => tmpdir # "active"

C6_Witness ==
  /\ Finished
  /\ saved
  /\ response.error = "zipfile"
  /\ tmpdir = "released"

\* C7: when the entity answer is not JSON the request ends with the error of
\* json.loads (the spec's ModelResponseFormatError), output.json is never
\* written, nothing is delivered, and the entity call was the only remote call:
\* no retry, no translation, no rebuild.
C7_NonJson ==
  (Finished /\ gemini_output \in JsonAnswers /\ ~json_loads_ok(gemini_output)) =>
    /\ response.kind = "error"
    /\ response.error = "json.loads"
    /\ response.file = None
    /\ "output.json" \notin produced
    /\ produced = {}
    /\ archive = {}
    /\ Len(calls) = 1
    /\ IsJsonCall(calls[1])
    /\ rebuilds = 0
    /\ translated_pages = <<>>

C7_Witness ==
  /\ Finished
  /\ user_choice = "both"
  /\ response.error = "json.loads"

\* C8: an upload fitz cannot open ends the request with the error of
\* fitz.open (the spec's DocumentParseError) in every mode; no remote call is
\* made, no text or block list is extracted and no output file is written.
C8_Unparseable ==
  (request.method = "POST" /\ request.has_file /\ ~request.file.valid) =>
    /\ calls = <<>>
    /\ produced = {}
    /\ text = <<>>
    /\ pages_data = <<>>
    /\ rebuilds = 0
    /\ pc \in {"save", "open", "done"}
    /\ response.kind \in {"none", "error"}
    /\ (Finished /\ saved) =>
         /\ response.kind = "error"
         /\ response.error = "fitz.open"
         /\ response.file = None

C8_Witness ==
  /\ Finished
  /\ saved
  /\ ~request.file.valid
  /\ user_choice = "both"
  /\ response.error = "fitz.open"

\* C9: every remote call is made with a target language of LANGUAGES.
C9_LanguageAllowList ==
  \A i \in 1..Len(calls) : calls[i].prompt.target_language \in LANGUAGES

\* C10: the translated pages follow the document page by page: entry k has the
\* boxes of page k's blocks and texts from page k's answer or page k's blocks;
\* the rebuilder never indexes past the list, and the rebuilt document has one
\* page of operations per input page, page k written from page k's blocks.
C10_PageCorrespondence ==
  /\ Len(translated_pages) = Len(translated_texts)
  /\ Len(translated_pages) <= Len(pages_data)
  /\ \A k \in 1..Len(translated_pages) :
       /\ Len(translated_pages[k]) = Len(pages_data[k])
       /\ \A i \in 1..Len(translated_pages[k]) :
            /\ translated_pages[k][i].bbox = pages_data[k][i].bbox
            /\ \/ translated_pages[k][i].text = pages_data[k][i].text
               \/ \E n \in 1..Len(Lines(k)) : translated_pages[k][i].text = Lines(k)[n]
  /\ response.error # "IndexError"
  /\ rebuilds >= 1 =>
       /\ Len(translated_pages) = NumPages
       /\ response.error = None =>
            /\ Len(rebuilt) = NumPages
            /\ \A p \in 1..NumPages :
                 LET kept == SelectSeq(request.file.pages[p], HasVisibleChar)
                 IN  /\ Len(rebuilt[p]) = 2 * Len(kept) + 1
                     /\ \A i \in 1..Len(kept) : rebuilt[p][i].bbox = kept[i].bbox

C10_Witness ==
  /\ Len(rebuilt) >= 2
  /\ \E p \in 1..Len(pages_data) : pages_data[p] = <<>>
  /\ \E p \in 1..Len(pages_data) : Len(pages_data[p]) >= 1
====
